---- MODULE Spec2Model ----
(***************************************************************************)
(* Model of flare/learners/lmpotf.py: the LMPOTF on-the-fly controller.   *)
(* One call of LMPOTF.step is a straight-line program of operations on    *)
(* the engine (lmp), the surrogate model (sparse_gp), the oracle          *)
(* (dftcalc), the checkpoint file (model_fname) and the telemetry sink    *)
(* (wandb).  Every operation may raise; the handler of step logs and      *)
(* re-raises.  The engine blocks while step runs, so one call of step is  *)
(* one action; inside it the operations run in source order (todo) until  *)
(* one raises or none is left.  The variables hold the state at the       *)
(* boundary between two calls, together with the record of the last call. *)
(***************************************************************************)
EXTENDS Integers, Sequences, FiniteSets, TLC

\* ---------------------------------------------------------------- bounds
MaxSteps == 3
NAtoms == 2
\* number of operations that raise in one run
MaxFailures == 1
\* longest type2number and energy_correction list given to the constructor
MaxTypes == 2

\* ------------------------------------------------------ program constants
RandomEnvs == 16
InitialLastDftCall == -100

\* ------------------------------------------------------------ input sets
Atoms == 0 .. (NAtoms - 1)
\* raw local variances returned by the model (negative ones are numerical
\* artifacts), chosen so that sqrt(|v|) / sigma is an integer
Variances == {-4, 16}
Sigmas == {1, 2}
Thresholds == {1, 2}
\* entries of the energy-correction vector and energies of the calculator
Corrections == {-1, 0, 1}
Energies == {-3, 5}

VARIABLES
    dft_call_threshold, dft_add_threshold, wandb,
    hyperparameter_optimization,
    dft_calls, last_dft_call, sparse_gp, model_file, lmp_potential, nsteps,
    branch, structure, stds, call_dft, atoms_to_be_added,
    err, raised, trace, errors_logged, pre, prev, failures, phase,
    predicate, kwargs, lmpotf, dft

cfgVars == <<dft_call_threshold, dft_add_threshold, wandb,
             hyperparameter_optimization>>
ctlVars == <<dft_calls, last_dft_call>>
locVars == <<structure, stds, call_dft, atoms_to_be_added, predicate>>
objVars == <<kwargs, lmpotf, dft>>
excVars == <<err, raised, errors_logged>>
histVars == <<pre, prev, nsteps, branch>>
vars == <<cfgVars, ctlVars, sparse_gp, model_file, lmp_potential,
          locVars, excVars, trace, histVars, failures, phase, objVars>>

\* ---------------------------------------------------------------- helpers
Range(s) == {s[i] : i \in 1 .. Len(s)}

Count(s, x) == Cardinality({i \in 1 .. Len(s) : s[i] = x})

\* position of the first occurrence of x in s, 0 when absent
Index(s, x) ==
    IF x \in Range(s) THEN CHOOSE i \in 1 .. Len(s) :
                              s[i] = x /\ \A j \in 1 .. (i - 1) : s[j] # x
    ELSE 0

Abs(v) == IF v < 0 THEN -v ELSE v

\* integer square root (exact on the squares in Variances)
Sqrt(n) == CHOOSE r \in 0 .. n : r * r <= n /\ (r + 1) * (r + 1) > n

Min(a, b) == IF a < b THEN a ELSE b

\* an operation of the current call was invoked and returned
Done(op) == op \in Range(trace) /\ err # op

\* ------------------------------------------------------------ the objects
EmptyGP(sigma) ==
    [training_structures |-> <<>>, sparse_environments |-> <<>>,
     sigma |-> sigma, fitted |-> 0]

NoStructure == [step |-> -1, labels |-> {}]

AllLabels == {"forces", "energy", "stresses"}

\* LMPOTF.save: sparse_gp.write_mapping_coefficients(fname, "LMPOTF", 0)
WriteMappingCoefficients(gp) == [state |-> "written", content |-> gp]

AbsentFile == [state |-> "absent", content |-> EmptyGP(1)]
PartialFile == [state |-> "partial", content |-> EmptyGP(1)]

\* --------------------------------------------------- arrays and __init__
\* a Python number and a Python list, as numpy sees them
Scalar(v) == [ndim |-> 0, data |-> <<v>>]
List(s) == [ndim |-> 1, data |-> s]

\* np.atleast_1d: a scalar becomes an array of one entry
AtLeast1d(a) == [ndim |-> IF a.ndim = 0 THEN 1 ELSE a.ndim, data |-> a.data]

\* len() of an array
ArrayLen(a) == Len(a.data)

\* a[i], with numpy's indices from 0
Item(a, i) == a.data[i + 1]

\* line 74: energy_correction = 0.0
DefaultEnergyCorrection == Scalar(0)

\* the arguments of LMPOTF(...) that lines 99-102 and 107 read
Kwargs ==
    [type2number : {Scalar(1)} \cup
                   {List([i \in 1 .. n |-> i]) : n \in 0 .. MaxTypes},
     energy_correction : {Scalar(c) : c \in Corrections} \cup
                         {List(v) : v \in UNION {[1 .. n -> Corrections] :
                                                  n \in 0 .. MaxTypes}},
     energy_training : BOOLEAN]

\* no controller yet
Unconstructed ==
    [status |-> "unconstructed", type2number |-> List(<<>>), ntypes |-> 0,
     energy_correction |-> List(<<>>), energy_training |-> FALSE]

\* the assertion accepting a correction vector longer than the type list
LengthCheck_AtLeast(correction, ntypes) == ArrayLen(correction) >= ntypes

\* line 102: assert len(self.energy_correction) == self.ntypes
LengthCheck(correction, ntypes) == ArrayLen(correction) = ntypes

\* lines 99-102 and 107 of __init__: the object, or the AssertionError that
\* leaves the caller without one
NewLMPOTF(a) ==
    LET t2n == AtLeast1d(a.type2number)
        n == ArrayLen(t2n)
        correction == AtLeast1d(a.energy_correction)
    IN  [status |-> IF LengthCheck(correction, n)
                    THEN "constructed" ELSE "AssertionError",
         type2number |-> t2n, ntypes |-> n,
         energy_correction |-> correction,
         energy_training |-> a.energy_training]

\* ------------------------------------------------- the energy of run_dft
RECURSIVE Sum(_, _)
\* np.sum over the atoms in S
Sum(f, S) ==
    IF S = {} THEN 0
    ELSE LET i == CHOOSE j \in S : TRUE IN f[i] + Sum(f, S \ {i})

\* line 257: self.energy_correction[types - 1]
PerAtomCorrection(correction, types) ==
    [i \in Atoms |-> Item(correction, types[i] - 1)]

\* the correction added to the energy instead of subtracted
CorrectedEnergy_Added(pe, correction, types) ==
    pe + Sum(PerAtomCorrection(correction, types), Atoms)

\* lines 256-257: pe -= np.sum(self.energy_correction[types - 1])
CorrectedEnergy(pe, correction, types) ==
    pe - Sum(PerAtomCorrection(correction, types), Atoms)

\* lines 264-265: structure.energy = np.array([pe]) when energy_training
EnergyLabel(energy_training, pe) == IF energy_training THEN <<pe>> ELSE <<>>

\* no call of run_dft yet
NoDft ==
    [called |-> FALSE, types |-> [i \in Atoms |-> 0], oracle |-> 0,
     step |-> -1, pe |-> 0, energy |-> <<>>]

\* lines 256-257, 264-265 and 271 of run_dft: the energy it attaches to
\* the structure and returns
RunDftEnergy(self, types, oracle, step) ==
    LET pe == CorrectedEnergy(oracle, self.energy_correction, types)
    IN  [called |-> TRUE, types |-> types, oracle |-> oracle, step |-> step,
         pe |-> pe, energy |-> EnergyLabel(self.energy_training, pe)]

\* ----------------------------------------------------- pure pieces of step
\* the bootstrap test repeated while one call has been counted
Bootstrap_UpToOne(calls) == calls <= 1

\* line 154: the bootstrap test
Bootstrap(calls) == calls = 0

\* line 166: stds = np.sqrt(np.abs(variances)) / sigma
Stds(variances, sigma) ==
    [i \in Atoms |-> Sqrt(Abs(variances[i])) \div sigma]

\* the comparison of line 178 made non-strict
CallDft_NonStrict(s, threshold) == \E i \in Atoms : s[i] >= threshold

\* line 178: call_dft = np.any(stds > self.dft_call_threshold)
CallDft(s, threshold) == \E i \in Atoms : s[i] > threshold

\* the comparison of line 193 reversed
AtomsToBeAdded_Below(s, threshold) == {i \in Atoms : s[i] < threshold}

\* the comparison of line 193 made non-strict
AtomsToBeAdded_NonStrict(s, threshold) == {i \in Atoms : s[i] >= threshold}

\* line 193: np.arange(natoms)[stds > self.dft_add_threshold]
AtomsToBeAdded(s, threshold) == {i \in Atoms : s[i] > threshold}

\* line 158: add_random_environments(structure, [16])
RandomEnvironments(n) ==
    {S \in SUBSET Atoms : Cardinality(S) = Min(n, NAtoms)}

\* the counter of line 268 stepped by two
IncrementCalls_Twice(n) == n + 2

\* line 268: self.dft_calls += 1
IncrementCalls(n) == n + 1

\* ------------------------------------------------- the programs of a call
\* run_dft with the counter update ahead of the calculator
RunDftBody_CountFirst ==
    <<"count_call", "oracle", "attach_labels", "post_dft_callback">>

\* run_dft, lines 247-271.  "oracle" is lines 248-261: the calculator's
\* energy, forces and stress and the optional dump of the queried frame.
RunDftBody ==
    <<"oracle", "attach_labels", "count_call", "post_dft_callback">>

\* the bootstrap branch with the callback after the checkpoint write
BootstrapBody_CallbackLast ==
    <<"oracle", "attach_labels", "count_call", "add_training_structure",
      "add_random_environments", "update_matrices_QR", "save",
      "post_dft_callback">>

\* lines 155-160
BootstrapBody ==
    RunDftBody
        \o <<"add_training_structure", "add_random_environments",
             "update_matrices_QR", "save">>

\* the query branch with the reload command ahead of the checkpoint write
QueryBody_ReloadBeforeSave ==
    <<"predict_DTC", "oracle", "attach_labels", "count_call",
      "post_dft_callback", "select_atoms", "add_training_structure",
      "add_specific_environments", "update_matrices_QR",
      "hyperparameter_optimization", "optimize_hyperparameters",
      "pair_coeff", "save">>

\* lines 180-225
QueryBody ==
    <<"predict_DTC">> \o RunDftBody
        \o <<"select_atoms", "add_training_structure",
             "add_specific_environments", "update_matrices_QR",
             "hyperparameter_optimization", "optimize_hyperparameters",
             "save", "pair_coeff">>

\* lines 227-238, inside the else branch of line 161
TelemetryBody(sink) == IF sink THEN <<"wandb">> ELSE <<>>

\* lines 162-179.  "predict_local_uncertainties" is lines 163-177: the
\* prediction, the scores and the optional dump of the scored frame.
SteadyHead == <<"predict_local_uncertainties", "threshold">>

\* the environments selected and added outside the test of line 179
AfterThreshold_AddAlways(call, sink) ==
    (IF call THEN QueryBody
     ELSE <<"select_atoms", "add_specific_environments">>)
        \o TelemetryBody(sink)

\* the query branch taken whatever the comparison says
AfterThreshold_AlwaysQuery(call, sink) == QueryBody \o TelemetryBody(sink)

\* lines 179 and 227: what follows the threshold comparison
AfterThreshold(call, sink) ==
    (IF call THEN QueryBody ELSE <<>>) \o TelemetryBody(sink)

\* lines 154 and 161: the branch of a call
BranchBody(calls) ==
    IF Bootstrap(calls) THEN BootstrapBody ELSE SteadyHead

\* the optimizer run whatever the predicate returns
AfterPredicate_Always(b, rest) == rest

\* line 199: the optimizer is skipped when the predicate is false
AfterPredicate(b, rest) ==
    IF ~b /\ rest # <<>> /\ Head(rest) = "optimize_hyperparameters"
    THEN Tail(rest) ELSE rest

\* line 241: self.logger.exception("LMPOTF ERROR")
LogException(n) == n + 1

\* the handler swallowing the exception
Reraise_Swallow(e) == "none"

\* line 242: raise err
Reraise(e) == e

\* ------------------------------------------------------------------- Init
\* lines 98 and 110-111, and a caller that has not called step yet
InitFields ==
    /\ dft_calls = 0
    /\ last_dft_call = InitialLastDftCall
    /\ sparse_gp \in {EmptyGP(s) : s \in Sigmas}
    /\ model_file = AbsentFile
    /\ lmp_potential = AbsentFile
    /\ nsteps = 0
    /\ branch = "none"
    /\ structure = NoStructure
    /\ stds = [i \in Atoms |-> 0]
    /\ call_dft = FALSE
    /\ atoms_to_be_added = {}
    /\ err = "none"
    /\ raised = "none"
    /\ trace = <<>>
    /\ errors_logged = 0
    /\ pre = [dft_calls |-> 0, last_dft_call |-> InitialLastDftCall,
              sparse_gp |-> sparse_gp, model_file |-> AbsentFile,
              lmp_potential |-> AbsentFile]
    /\ prev = [branch |-> "none", err |-> "none"]
    /\ failures = 0
    /\ phase = "ready"
    /\ predicate = "none"
    /\ dft = NoDft

\* a controller built from consistent arguments, with any thresholds,
\* policy, sink and model
Init ==
    /\ dft_call_threshold \in Thresholds
    /\ dft_add_threshold \in Thresholds
    /\ wandb \in BOOLEAN
    /\ hyperparameter_optimization \in {"default", "user"}
    /\ InitFields
    /\ kwargs = [type2number |-> Scalar(1),
                 energy_correction |-> DefaultEnergyCorrection,
                 energy_training |-> TRUE]
    /\ lmpotf = NewLMPOTF(kwargs)

\* ------------------------------------------- the operations of one call
\* The state of a running call: the controller's fields, the collaborators,
\* the locals of step, the operations invoked so far (trace), the pending
\* exception (err) and the operations still to run (todo).
Enter ==
    [step |-> nsteps, dft_calls |-> dft_calls,
     last_dft_call |-> last_dft_call, sparse_gp |-> sparse_gp,
     model_file |-> model_file, lmp_potential |-> lmp_potential,
     branch |-> "none", structure |-> NoStructure,
     stds |-> [i \in Atoms |-> 0], call_dft |-> FALSE,
     atoms_to_be_added |-> {}, predicate |-> "none",
     trace |-> <<>>, err |-> "none",
     raised |-> "none", errors_logged |-> 0, failures |-> failures,
     todo |-> <<"engine_read">>]

\* op was invoked and returned; the rest of the program follows
Call(s, op) == [s EXCEPT !.trace = Append(@, op), !.todo = Tail(@)]

\* an operation that raises, with the model put back as it was at entry
Throw_Rollback(s, op) ==
    [s EXCEPT !.trace = Append(@, op), !.todo = <<>>, !.err = op,
              !.failures = @ + 1, !.sparse_gp = sparse_gp]

\* op was invoked and raised: control leaves the try block (line 239)
Throw(s, op) ==
    [s EXCEPT !.trace = Append(@, op), !.todo = <<>>, !.err = op,
              !.failures = @ + 1]

\* lines 141-154 and 161: read the configuration, build the Structure, branch
EngineRead(s) ==
    {[Call(s, "engine_read") EXCEPT
         !.structure = [step |-> s.step, labels |-> {}],
         !.branch = IF Bootstrap(s.dft_calls) THEN "bootstrap" ELSE "steady",
         !.todo = BranchBody(s.dft_calls)]}

\* lines 163-177
PredictLocalUncertainties(s) ==
    {[Call(s, "predict_local_uncertainties") EXCEPT
         !.stds = Stds(variances, s.sparse_gp.sigma)] :
     variances \in [Atoms -> Variances]}

\* lines 178-179 and 227
Threshold(s) ==
    LET call == CallDft(s.stds, dft_call_threshold)
    IN  {[Call(s, "threshold") EXCEPT
             !.call_dft = call, !.todo = AfterThreshold(call, wandb)]}

\* lines 180-191
PredictDTC(s) == {Call(s, "predict_DTC")}

\* lines 248-261
Oracle(s) == {Call(s, "oracle")}

\* lines 262-267
AttachLabels(s) ==
    {[Call(s, "attach_labels") EXCEPT !.structure.labels = AllLabels]}

\* lines 268-269
CountCall(s) ==
    {[Call(s, "count_call") EXCEPT
         !.dft_calls = IncrementCalls(@),
         !.last_dft_call = s.structure.step]}

\* line 270
PostDftCallback(s) == {Call(s, "post_dft_callback")}

\* line 193
SelectAtoms(s) ==
    {[Call(s, "select_atoms") EXCEPT
         !.atoms_to_be_added = AtomsToBeAdded(s.stds, dft_add_threshold)]}

\* lines 157 and 194
AddTrainingStructure(s) ==
    {[Call(s, "add_training_structure") EXCEPT
         !.sparse_gp.training_structures = Append(@, s.structure)]}

\* line 158
AddRandomEnvironments(s) ==
    {[Call(s, "add_random_environments") EXCEPT
         !.sparse_gp.sparse_environments = Append(@, S)] :
     S \in RandomEnvironments(RandomEnvs)}

\* lines 195-197
AddSpecificEnvironments(s) ==
    {[Call(s, "add_specific_environments") EXCEPT
         !.sparse_gp.sparse_environments = Append(@, s.atoms_to_be_added)]}

\* lines 159 and 198
UpdateMatricesQR(s) ==
    {[Call(s, "update_matrices_QR") EXCEPT
         !.sparse_gp.fitted = Len(s.sparse_gp.training_structures)]}

\* line 199: the policy predicate; the default (line 85) returns False
HyperparameterOptimization(s) ==
    {[Call(s, "hyperparameter_optimization") EXCEPT
         !.predicate = IF b THEN "True" ELSE "False",
         !.todo = AfterPredicate(b, Tail(s.todo))] :
     b \in (IF hyperparameter_optimization = "default"
            THEN {FALSE} ELSE BOOLEAN)}

\* lines 200-218
OptimizeHyperparameters(s) ==
    {[Call(s, "optimize_hyperparameters") EXCEPT !.sparse_gp.sigma = sigma] :
     sigma \in Sigmas}

\* lines 160 and 219 (LMPOTF.save, lines 125-126)
Save(s) ==
    {[Call(s, "save") EXCEPT
         !.model_file = WriteMappingCoefficients(s.sparse_gp)]}

\* line 220: lmp.command("pair_coeff * * <model_fname>")
PairCoeff(s) ==
    {[Call(s, "pair_coeff") EXCEPT !.lmp_potential = s.model_file]}

\* lines 227-238
Wandb(s) == {Call(s, "wandb")}

\* the operations that can raise: every call into the engine, the model,
\* the calculator, the file system, the sink and the user's functions
Fallible ==
    {"engine_read", "predict_local_uncertainties", "predict_DTC", "oracle",
     "post_dft_callback", "add_training_structure",
     "add_random_environments", "add_specific_environments",
     "update_matrices_QR", "hyperparameter_optimization",
     "optimize_hyperparameters", "save", "pair_coeff", "wandb"}

Returns(s, op) ==
    CASE op = "engine_read" -> EngineRead(s)
      [] op = "predict_local_uncertainties" -> PredictLocalUncertainties(s)
      [] op = "threshold" -> Threshold(s)
      [] op = "predict_DTC" -> PredictDTC(s)
      [] op = "oracle" -> Oracle(s)
      [] op = "attach_labels" -> AttachLabels(s)
      [] op = "count_call" -> CountCall(s)
      [] op = "post_dft_callback" -> PostDftCallback(s)
      [] op = "select_atoms" -> SelectAtoms(s)
      [] op = "add_training_structure" -> AddTrainingStructure(s)
      [] op = "add_random_environments" -> AddRandomEnvironments(s)
      [] op = "add_specific_environments" -> AddSpecificEnvironments(s)
      [] op = "update_matrices_QR" -> UpdateMatricesQR(s)
      [] op = "hyperparameter_optimization" -> HyperparameterOptimization(s)
      [] op = "optimize_hyperparameters" -> OptimizeHyperparameters(s)
      [] op = "save" -> Save(s)
      [] op = "pair_coeff" -> PairCoeff(s)
      [] op = "wandb" -> Wandb(s)

\* the file is written in place (line 126), so a write that raises leaves
\* the old file or a partial one; every other operation that raises leaves
\* the state as it was
Raises(s, op) ==
    IF op \notin Fallible \/ s.failures >= MaxFailures THEN {}
    ELSE IF op = "save"
    THEN {[Throw(s, op) EXCEPT !.model_file = f] :
          f \in {s.model_file, PartialFile}}
    ELSE {Throw(s, op)}

\* lines 140-238: the try block runs until an operation raises or none is left
RECURSIVE Try(_)
Try(s) ==
    IF s.todo = <<>> THEN {s}
    ELSE UNION {Try(t) : t \in Returns(s, Head(s.todo))}
             \cup Raises(s, Head(s.todo))

\* lines 239-245: log the error, then raise it to the caller
Except(s) ==
    IF s.err = "none" THEN s
    ELSE [s EXCEPT !.errors_logged = LogException(@),
                   !.raised = Reraise(s.err)]

\* ---------------------------------------------------------------- actions
\* the engine calls step(lmpptr), lines 128-245
Step ==
    /\ lmpotf.status = "constructed"
    /\ phase = "ready"
    /\ phase' = "returned"
    /\ \E t \in Try(Enter) :
          LET s == Except(t)
          IN  /\ dft_calls' = s.dft_calls
              /\ last_dft_call' = s.last_dft_call
              /\ sparse_gp' = s.sparse_gp
              /\ model_file' = s.model_file
              /\ lmp_potential' = s.lmp_potential
              /\ branch' = s.branch
              /\ structure' = s.structure
              /\ stds' = s.stds
              /\ call_dft' = s.call_dft
              /\ atoms_to_be_added' = s.atoms_to_be_added
              /\ predicate' = s.predicate
              /\ trace' = s.trace
              /\ err' = s.err
              /\ raised' = s.raised
              /\ errors_logged' = s.errors_logged
              /\ failures' = s.failures
    /\ nsteps' = nsteps + 1
    /\ pre' = [dft_calls |-> dft_calls, last_dft_call |-> last_dft_call,
               sparse_gp |-> sparse_gp, model_file |-> model_file,
               lmp_potential |-> lmp_potential]
    /\ UNCHANGED <<cfgVars, prev, objVars>>

\* step has returned or raised and its locals are gone; the engine goes on
\* to its next step, whatever the outcome of the call
Advance ==
    /\ phase = "returned"
    /\ nsteps < MaxSteps
    /\ phase' = "ready"
    /\ prev' = [branch |-> branch, err |-> err]
    /\ pre' = [dft_calls |-> dft_calls, last_dft_call |-> last_dft_call,
               sparse_gp |-> sparse_gp, model_file |-> model_file,
               lmp_potential |-> lmp_potential]
    /\ branch' = "none"
    /\ structure' = NoStructure
    /\ stds' = [i \in Atoms |-> 0]
    /\ call_dft' = FALSE
    /\ atoms_to_be_added' = {}
    /\ predicate' = "none"
    /\ trace' = <<>>
    /\ err' = "none"
    /\ raised' = "none"
    /\ errors_logged' = 0
    /\ UNCHANGED <<cfgVars, ctlVars, sparse_gp, model_file, lmp_potential,
                   nsteps, failures, objVars>>

Next == Step \/ Advance

Spec == Init /\ [][Next]_vars

\* the engine calls step at every step of its run (the fix that registers
\* the controller invokes it each timestep), so a call that can be made is
\* made
FairSpec == Spec /\ WF_vars(Next)

\* ------------------------------------- the constructor and run_dft alone
\* any arguments, the default thresholds (call above add), policy and sink
\* (lines 78-79, 85, 90), and no controller yet
CtorInit ==
    /\ dft_call_threshold = 2
    /\ dft_add_threshold = 1
    /\ wandb = FALSE
    /\ hyperparameter_optimization = "default"
    /\ InitFields
    /\ sparse_gp.sigma = 1
    /\ kwargs \in Kwargs
    /\ lmpotf = Unconstructed

\* LMPOTF(...), lines 67-121
Construct ==
    /\ lmpotf.status = "unconstructed"
    /\ lmpotf' = NewLMPOTF(kwargs)
    /\ UNCHANGED <<cfgVars, ctlVars, sparse_gp, model_file, lmp_potential,
                   locVars, excVars, trace, histVars, failures, phase,
                   kwargs, dft>>

\* lmpotf.run_dft(cell, x, types, step, structure), lines 247-271: the
\* energy of a configuration whose atoms have the given types
RunDft ==
    /\ lmpotf.status = "constructed"
    /\ \E types \in [Atoms -> 1 .. lmpotf.ntypes], oracle \in Energies,
          step \in 0 .. (MaxSteps - 1) :
          dft' = RunDftEnergy(lmpotf, types, oracle, step)
    /\ UNCHANGED <<cfgVars, ctlVars, sparse_gp, model_file, lmp_potential,
                   locVars, excVars, trace, histVars, failures, phase,
                   kwargs, lmpotf>>

CtorNext == Construct \/ RunDft

CtorSpec == CtorInit /\ [][CtorNext]_vars

\* ----------------------------------------------------------- properties
\* the last call of step has ended (returned or raised)
Returned == phase = "returned"

\* the last call of step returned to the engine without an exception
ReturnedOK == phase = "returned" /\ raised = "none" /\ err = "none"

\* some atom's score is strictly greater than the threshold
Exceeds(threshold) == \E i \in Atoms : stds[i] > threshold

\* the last call scored the configuration
Scored == Done("predict_local_uncertainties")

Last(s) == s[Len(s)]

\* op1 and op2 were both invoked in the last call, op1 first
Before(op1, op2) ==
    /\ op1 \in Range(trace)
    /\ op2 \in Range(trace)
    /\ Index(trace, op1) < Index(trace, op2)

\* C1: a call takes the bootstrap branch iff dft_calls was 0 at entry; in
\* that branch the oracle is the first operation after the read, with no
\* variance predicted and no threshold compared; and when the call returns
\* without error dft_calls is 1.
C1_Bootstrap ==
    /\ branch # "none" => (branch = "bootstrap" <=> pre.dft_calls = 0)
    /\ branch = "bootstrap" =>
          /\ Len(trace) >= 2
          /\ trace[2] = "oracle"
          /\ "predict_local_uncertainties" \notin Range(trace)
          /\ "threshold" \notin Range(trace)
    /\ branch = "bootstrap" /\ ReturnedOK => dft_calls = 1

C1_Witness == branch = "bootstrap" /\ ReturnedOK /\ Done("oracle")

\* C2: across a call dft_calls never decreases; it grows by exactly 1 when
\* the oracle was invoked and returned, and by 0 otherwise, in particular
\* in a STEADY call in which no score exceeds dft_call_threshold.
C2_Monotonic ==
    Returned =>
        /\ dft_calls >= pre.dft_calls
        /\ dft_calls = pre.dft_calls + (IF Done("oracle") THEN 1 ELSE 0)
        /\ (branch = "steady" /\ Scored /\ ~Exceeds(dft_call_threshold))
              => dft_calls = pre.dft_calls

C2_Witness ==
    /\ ReturnedOK
    /\ nsteps = 3
    /\ branch = "steady"
    /\ ~Exceeds(dft_call_threshold)
    /\ dft_calls = 2

\* C3: in a STEADY call the query sub-step is entered iff some score is
\* strictly greater than dft_call_threshold; the oracle is invoked only
\* then, and in a call that returns without error it is invoked iff then.
\* A maximum score equal to or below the threshold never reaches the oracle.
C3_ThresholdBoundary ==
    (branch = "steady" /\ Done("threshold")) =>
        /\ "predict_DTC" \in Range(trace) <=> Exceeds(dft_call_threshold)
        /\ "oracle" \in Range(trace) => Exceeds(dft_call_threshold)
        /\ ReturnedOK => (Done("oracle") <=> Exceeds(dft_call_threshold))

C3_Witness ==
    /\ branch = "steady"
    /\ ReturnedOK
    /\ \E i \in Atoms : stds[i] = dft_call_threshold
    /\ \A i \in Atoms : stds[i] <= dft_call_threshold
    /\ "oracle" \notin Range(trace)

\* C4: in a STEADY call the environments added to the model are those of
\* exactly the atoms whose score is strictly greater than dft_add_threshold:
\* a subset of the atoms, each with a score above the threshold.
C4_AddSubset ==
    branch = "steady" =>
        IF Done("add_specific_environments")
        THEN /\ Len(sparse_gp.sparse_environments)
                    = Len(pre.sparse_gp.sparse_environments) + 1
             /\ Last(sparse_gp.sparse_environments)
                    = {i \in Atoms : stds[i] > dft_add_threshold}
             /\ Last(sparse_gp.sparse_environments) \subseteq Atoms
             /\ \A i \in Last(sparse_gp.sparse_environments) :
                    stds[i] > dft_add_threshold
        ELSE sparse_gp.sparse_environments
                    = pre.sparse_gp.sparse_environments

C4_Witness ==
    /\ branch = "steady"
    /\ Done("add_specific_environments")
    /\ Last(sparse_gp.sparse_environments) # {}
    /\ Last(sparse_gp.sparse_environments) # Atoms

\* C5: a STEADY call in which no score exceeds dft_call_threshold leaves
\* dft_calls, last_dft_call, the model, the checkpoint file and the engine's
\* potential as they were, and invokes neither the oracle, the callback, the
\* policy predicate, the optimizer, the checkpoint write nor the reload.
C5_IdleFrame ==
    (branch = "steady" /\ Scored /\ ~Exceeds(dft_call_threshold)) =>
        /\ dft_calls = pre.dft_calls
        /\ last_dft_call = pre.last_dft_call
        /\ sparse_gp = pre.sparse_gp
        /\ model_file = pre.model_file
        /\ lmp_potential = pre.lmp_potential
        /\ Range(trace) \cap
              {"predict_DTC", "oracle", "post_dft_callback",
               "add_training_structure", "add_specific_environments",
               "update_matrices_QR", "hyperparameter_optimization",
               "optimize_hyperparameters", "save", "pair_coeff"} = {}

C5_Witness ==
    /\ branch = "steady"
    /\ ReturnedOK
    /\ Done("threshold")
    /\ ~Exceeds(dft_call_threshold)
    /\ model_file.state = "written"

\* C6: at every boundary between calls the number of training records of
\* the model equals dft_calls, and the records of the previous boundary are
\* still there, unchanged, at the front.
C6_AppendOnlyCount ==
    /\ Len(sparse_gp.training_structures) = dft_calls
    /\ Len(pre.sparse_gp.training_structures)
          <= Len(sparse_gp.training_structures)
    /\ SubSeq(sparse_gp.training_structures, 1,
              Len(pre.sparse_gp.training_structures))
          = pre.sparse_gp.training_structures

\* C7: whenever a call returns without error the checkpoint file holds the
\* current in-memory model (training set and hyperparameters).
C7_FreshAfterEveryCall ==
    ReturnedOK =>
        /\ model_file.state = "written"
        /\ model_file.content = sparse_gp

\* C8 as stated: every call that writes a checkpoint and returns without
\* error issues the reload command exactly once, after the write.
C8_ReloadAfterEveryWrite ==
    (ReturnedOK /\ Done("save")) =>
        /\ Count(trace, "pair_coeff") = 1
        /\ Before("save", "pair_coeff")
        /\ lmp_potential = model_file

\* C8 amended: every STEADY query call that writes a checkpoint and returns
\* without error issues the reload command exactly once, after the write, so
\* the engine then holds the latest checkpoint; the bootstrap call writes
\* the checkpoint and issues no reload command.
C8_ReloadAfterQuery ==
    /\ (ReturnedOK /\ branch = "steady" /\ Done("save")) =>
          /\ Count(trace, "pair_coeff") = 1
          /\ Before("save", "pair_coeff")
          /\ lmp_potential = model_file
    /\ branch = "bootstrap" =>
          /\ "pair_coeff" \notin Range(trace)
          /\ lmp_potential = pre.lmp_potential

C8_Witness ==
    /\ ReturnedOK
    /\ branch = "steady"
    /\ Done("pair_coeff")
    /\ lmp_potential.state = "written"

\* C9: when an operation of a call raises, the call logs exactly one error
\* event and raises that same exception to the caller; the failed operation
\* is the last one invoked and was invoked once.  A call in which nothing
\* raises logs no error and raises nothing.
C9_LogThenReraise ==
    Returned =>
        /\ err # "none" =>
              /\ errors_logged = 1
              /\ raised = err
              /\ Last(trace) = err
              /\ Count(trace, err) = 1
        /\ err = "none" =>
              /\ errors_logged = 0
              /\ raised = "none"

C9_Witness ==
    /\ Returned
    /\ branch = "steady"
    /\ err = "update_matrices_QR"
    /\ raised = "update_matrices_QR"

\* C10: when the oracle raises, the exception reaches the caller with
\* dft_calls, last_dft_call, the model and the checkpoint file as they were
\* at entry, no label attached to the configuration and the callback not
\* run; the call after a bootstrap whose oracle raised is a bootstrap again.
C10_OracleFailure ==
    /\ err = "oracle" =>
          /\ raised = "oracle"
          /\ dft_calls = pre.dft_calls
          /\ last_dft_call = pre.last_dft_call
          /\ sparse_gp = pre.sparse_gp
          /\ model_file = pre.model_file
          /\ structure.labels = {}
          /\ "post_dft_callback" \notin Range(trace)
    /\ (prev.branch = "bootstrap" /\ prev.err = "oracle" /\ branch # "none")
          => branch = "bootstrap"

C10_Witness ==
    /\ Returned
    /\ prev.branch = "bootstrap"
    /\ prev.err = "oracle"
    /\ branch = "bootstrap"

\* the number of entries numpy gives an argument: 1 for a scalar
Entries(a) == IF a.ndim = 0 THEN 1 ELSE Len(a.data)

\* C11: constructing the controller succeeds iff the energy-correction
\* vector (a scalar, which is the default, counting as one entry) has as
\* many entries as type2number has types; otherwise construction fails with
\* an error and neither step nor run_dft can ever run on that controller.
C11_EagerCheck ==
    LET same == Entries(kwargs.energy_correction) = Entries(kwargs.type2number)
    IN  /\ Entries(DefaultEnergyCorrection) = 1
        /\ lmpotf.status # "unconstructed" =>
              /\ lmpotf.status = "constructed" <=> same
              /\ lmpotf.status = "AssertionError" <=> ~same
        /\ lmpotf.status = "AssertionError" =>
              /\ ~ENABLED Step
              /\ ~ENABLED RunDft
              /\ nsteps = 0
              /\ ~dft.called

C11_Witness ==
    /\ lmpotf.status = "AssertionError"
    /\ kwargs.energy_correction = DefaultEnergyCorrection
    /\ Entries(kwargs.type2number) = 2

\* C12: when the sink's histogram or log call fails during a step, the step
\* still returns without error.
C12_TelemetryIndependent ==
    Returned /\ err = "wandb" => raised = "none"

\* C13: the energy that run_dft returns, and attaches to the record when
\* energy training is on, is the oracle energy offset by the per-type
\* correction summed over the atoms (the sum is subtracted); the offset is
\* determined by the number of atoms of each type alone, and is zero when
\* the correction vector is all zero.
C13_EnergyCorrection ==
    dft.called =>
        LET c == lmpotf.energy_correction.data
            types == 1 .. lmpotf.ntypes
            offset == Sum([t \in types |->
                              Cardinality({i \in Atoms : dft.types[i] = t})
                                  * c[t]], types)
        IN  /\ dft.pe = dft.oracle - offset
            /\ (\A t \in types : c[t] = 0) => dft.pe = dft.oracle
            /\ dft.energy = IF lmpotf.energy_training
                            THEN <<dft.pe>> ELSE <<>>

C13_Witness ==
    /\ dft.called
    /\ dft.pe # dft.oracle
    /\ dft.energy = <<dft.pe>>
    /\ \E i, j \in Atoms : dft.types[i] # dft.types[j]

\* the operations that change the model's training data or refit it
ModelUpdates ==
    {"add_training_structure", "add_random_environments",
     "add_specific_environments", "update_matrices_QR"}

\* C14: when add_training_structure, add_*_environments or
\* update_matrices_QR raises, dft_calls and last_dft_call have the values
\* they had before the step.
C14_CounterCommit ==
    err \in ModelUpdates =>
        /\ dft_calls = pre.dft_calls
        /\ last_dft_call = pre.last_dft_call

\* C15 as stated: a step whose oracle call returns invokes the callback
\* exactly once, after the record was added, the model refitted and the
\* checkpoint written; a step without an oracle call never invokes it.
C15_CallbackAfterUpdate ==
    /\ Done("oracle") => Count(trace, "post_dft_callback") = 1
    /\ ReturnedOK /\ Done("post_dft_callback") =>
          /\ Before("add_training_structure", "post_dft_callback")
          /\ Before("update_matrices_QR", "post_dft_callback")
          /\ Before("save", "post_dft_callback")
    /\ "oracle" \notin Range(trace) => "post_dft_callback" \notin Range(trace)

\* C15 amended: a step whose oracle call returns invokes the callback
\* exactly once, right after the counters are updated and before the record
\* is added, the model refitted and the checkpoint written, so the callback
\* sees the new counters with the model and the checkpoint of before the
\* step; a step whose oracle did not return never invokes it.
C15_CallbackAfterOracle ==
    LET o == Index(trace, "oracle")
        cb == Index(trace, "post_dft_callback")
    IN  /\ o > 0 /\ err # "oracle" =>
              /\ cb = o + 3
              /\ trace[o + 1] = "attach_labels"
              /\ trace[o + 2] = "count_call"
        /\ cb > 0 =>
              /\ o > 0 /\ err # "oracle"
              /\ \A i \in 1 .. Len(trace) :
                    /\ i # cb => trace[i] # "post_dft_callback"
                    /\ i < cb => trace[i] \notin ModelUpdates
                                     \cup {"save", "pair_coeff"}
        /\ err = "post_dft_callback" =>
              /\ dft_calls = pre.dft_calls + 1
              /\ last_dft_call = structure.step
              /\ sparse_gp = pre.sparse_gp
              /\ model_file = pre.model_file

C15_Witness ==
    /\ ReturnedOK
    /\ branch = "steady"
    /\ Done("post_dft_callback")
    /\ Done("save")

\* C16: a STEADY step that queried the oracle and refitted evaluates the
\* predicate exactly once, after the refit and before the checkpoint write;
\* the optimizer runs iff the predicate returned true; the bootstrap step
\* and the idle step evaluate no predicate and run no optimizer; with the
\* default predicate the optimizer never runs.
C16_ConditionalHyperopt ==
    LET u == Index(trace, "update_matrices_QR")
        p == Index(trace, "hyperparameter_optimization")
        o == Index(trace, "optimize_hyperparameters")
        w == Index(trace, "save")
        once(k) == \A i \in 1 .. Len(trace) : i # k => trace[i] # trace[k]
    IN  /\ branch = "steady" /\ u > 0 /\ err # "update_matrices_QR" =>
              p = u + 1
        /\ p > 0 =>
              /\ branch = "steady" /\ call_dft /\ Done("oracle")
              /\ p = u + 1 /\ err # "update_matrices_QR"
              /\ w > 0 => p < w
              /\ once(p)
        /\ branch = "steady" /\ call_dft /\ ReturnedOK => p > 0 /\ p < w
        /\ o > 0 <=> predicate = "True"
        /\ o > 0 =>
              /\ o = p + 1
              /\ w > 0 => o < w
              /\ once(o)
        /\ branch = "bootstrap" \/ (branch = "steady" /\ ~call_dft) =>
              p = 0 /\ o = 0
        /\ hyperparameter_optimization = "default" =>
              o = 0 /\ predicate # "True"

C16_Witness ==
    /\ ReturnedOK
    /\ predicate = "True"
    /\ Done("optimize_hyperparameters")
    /\ Done("save")

\* the last call changed the model's atom environments
EnvironmentsAdded ==
    sparse_gp.sparse_environments # pre.sparse_gp.sparse_environments

\* C17 as stated: a controller with dft_call_threshold < dft_add_threshold
\* comes to a step that adds atom environments although the oracle query
\* was not triggered in it.
C17_AddWithoutQuery ==
    dft_call_threshold < dft_add_threshold =>
        <>(branch = "steady" /\ ~call_dft /\ EnvironmentsAdded)

\* C17 amended: whatever the order of the two thresholds, a STEADY step
\* adds atom environments only when the oracle query was triggered and the
\* oracle returned in that step; a step that triggers no query leaves the
\* model as it was.
C17_AddOnlyWithQuery ==
    /\ branch = "steady" /\ EnvironmentsAdded =>
          /\ call_dft
          /\ Exceeds(dft_call_threshold)
          /\ Done("oracle")
    /\ branch = "steady" /\ ~call_dft => sparse_gp = pre.sparse_gp

C17_Witness ==
    /\ dft_call_threshold < dft_add_threshold
    /\ branch = "steady"
    /\ Done("add_specific_environments")
    /\ atoms_to_be_added # {}
    /\ EnvironmentsAdded

\* the checkpoint file lacks a record of the model, or is no checkpoint
Stale(gp, file) ==
    \/ file.state # "written"
    \/ Len(file.content.training_structures) < Len(gp.training_structures)

\* C18: when the refit raises after the step's record was added, the step
\* ends with the record in the in-memory model and not in the checkpoint
\* file, which is as before the step; the next step starts from that model;
\* and a step that starts with the mismatch ends with it unless its
\* checkpoint write completes, after which the file holds the model.
C18_AtomicityGap ==
    /\ err = "update_matrices_QR" =>
          /\ raised = "update_matrices_QR"
          /\ Len(sparse_gp.training_structures)
                 = Len(pre.sparse_gp.training_structures) + 1
          /\ Last(sparse_gp.training_structures) = structure
          /\ model_file = pre.model_file
          /\ Stale(sparse_gp, model_file)
    /\ prev.err = "update_matrices_QR" /\ branch # "none" =>
          /\ Stale(pre.sparse_gp, pre.model_file)
          /\ Len(pre.sparse_gp.training_structures) >= 1
    /\ Stale(pre.sparse_gp, pre.model_file) /\ ~Done("save") =>
          Stale(sparse_gp, model_file)
    /\ Done("save") =>
          /\ model_file = WriteMappingCoefficients(sparse_gp)
          /\ ~Stale(sparse_gp, model_file)

C18_Witness ==
    /\ prev.err = "update_matrices_QR"
    /\ branch = "steady"
    /\ ReturnedOK
    /\ ~call_dft
    /\ Stale(sparse_gp, model_file)

\* C19: a step that takes the STEADY branch starts with a model that has at
\* least one training record and was refitted, and with a written
\* checkpoint.
C19_SteadyTrained ==
    branch = "steady" =>
        /\ Len(pre.sparse_gp.training_structures) >= 1
        /\ pre.sparse_gp.fitted >= 1
        /\ pre.model_file.state = "written"

\* C20: with dft_call_threshold >= dft_add_threshold a STEADY step that
\* queries the oracle selects at least one atom, every atom of maximal score
\* among them, and the environments it adds are the selected ones; with
\* dft_call_threshold < dft_add_threshold a step that selects no atom has
\* nevertheless queried the oracle and counted the call, and adds the
\* full record with an empty set of environments.
C20_NonEmptySelection ==
    LET selected == branch = "steady" /\ Done("select_atoms")
        added == branch = "steady" /\ Done("add_specific_environments")
    IN  /\ dft_call_threshold >= dft_add_threshold /\ selected =>
              /\ atoms_to_be_added # {}
              /\ \A i \in Atoms :
                    (\A j \in Atoms : stds[j] <= stds[i])
                        => i \in atoms_to_be_added
        /\ added =>
              /\ Last(sparse_gp.sparse_environments) = atoms_to_be_added
              /\ Last(sparse_gp.training_structures) = structure
        /\ selected /\ atoms_to_be_added = {} =>
              /\ dft_call_threshold < dft_add_threshold
              /\ Done("oracle")
              /\ dft_calls = pre.dft_calls + 1

C20_Witness ==
    /\ dft_call_threshold < dft_add_threshold
    /\ branch = "steady"
    /\ ReturnedOK
    /\ Done("oracle")
    /\ atoms_to_be_added = {}
    /\ Last(sparse_gp.sparse_environments) = {}
    /\ Len(sparse_gp.training_structures)
           = Len(pre.sparse_gp.training_structures) + 1
    /\ dft_calls = pre.dft_calls + 1
====
